---- MODULE Spec2Model ----
(***************************************************************************)
(* Model of src/core/SynthLeader.py (class SynthLeader).                   *)
(*                                                                         *)
(* A pandas DataFrame is a record [cols, rows]: cols is the sequence of    *)
(* column labels in storage order, rows the sequence of rows, every row a  *)
(* sequence of cell values in the order of cols.  Cell values are non-null *)
(* hashable scalars compared by value (integers here).                     *)
(*                                                                         *)
(* A float returned by a Python division a / b of two non-negative ints is *)
(* the pair <<a', b'>> of the quotient in lowest terms, so 0.5 is <<1, 2>>,*)
(* 1.0 is <<1, 1>> and 0.0 is <<0, 1>>.                                    *)
(***************************************************************************)
EXTENDS Integers, Sequences, FiniteSets, TLC

VARIABLES
    df,              \* self.df, the real dataframe given to __init__
    op,              \* the method called last ("__init__" after construction)
    synthetic_data,  \* the synthetic dataframe passed as synthetic_data
    ret,             \* what the last overlap call returned or raised
    files,           \* the files of models_dir: file name -> pickled model
    n_fits,          \* how many models have been fitted so far
    train_call,      \* the arguments of the last train_synthesizer call
    train_ret,       \* what the last train_synthesizer call returned or raised
    called,          \* history: the model names train_synthesizer returned for
    batch_size,      \* the batch_size argument of the GAN training methods
    sample_model,    \* history: id of the model synthetic_data was sampled from
    reports,         \* the files of report_dir: file name -> pickled report
    computed,        \* history: per report file, the data of each computation
    report_call,     \* the arguments of the last run_diagnostic / run_evaluation
    report_ret       \* what that call returned or raised

overlapVars == <<synthetic_data, ret>>

trainVars == <<files, n_fits, train_call, train_ret, called, batch_size>>

reportVars == <<sample_model, reports, computed, report_call, report_ret>>

vars == <<df, op, synthetic_data, ret, files, n_fits, train_call, train_ret,
          called, batch_size, sample_model, reports, computed, report_call,
          report_ret>>

----------------------------------------------------------------------------
(* Bounds of the inputs.                                                   *)

\* A generated dataframe holds at most MaxCells cells (rows times columns).
MaxCells == 3

\* The cells of a generated dataframe hold values of 1..MaxVal.
MaxVal == 2

\* How many times a row is repeated when duplicates are added.
MaxRepeat == 2

\* At most MaxFits models are fitted in one run.
MaxFits == 2

\* The GAN training methods are tried with every batch size up to this one.
MaxBatchSize == 40

Values == 1..MaxVal

SeqsUpTo(S, n) == UNION {[1..k -> S] : k \in 0..n}

GenericFrames(cols) ==
    {[cols |-> cols, rows |-> r] :
        r \in SeqsUpTo([1..Len(cols) -> Values], MaxCells \div Len(cols))}

\* The dataframes of the documented example: A=[1,2,3] and A=[2,3,4].
ExampleReal == [cols |-> <<"A">>, rows |-> <<<<1>>, <<2>>, <<3>>>>]
ExampleSyn == [cols |-> <<"A">>, rows |-> <<<<2>>, <<3>>, <<4>>>>]

RealFrames ==
    GenericFrames(<<"A">>) \cup GenericFrames(<<"A", "B">>) \cup {ExampleReal}

SynFrames ==
    GenericFrames(<<"A">>) \cup GenericFrames(<<"A", "B">>)
        \cup GenericFrames(<<"B", "A">>) \cup {ExampleSyn}

----------------------------------------------------------------------------
(* pandas and Python built-ins used by the two overlap methods.            *)

ColSet(frame) == {frame.cols[i] : i \in 1..Len(frame.cols)}

\* Position of label c in the frame's columns.
ColIndex(frame, c) == CHOOSE i \in 1..Len(frame.cols) : frame.cols[i] = c

\* frame[c]: the Series of column c (KeyError when c is no column).
HasColumn(frame, c) == c \in ColSet(frame)

Column(frame, c) ==
    [i \in 1..Len(frame.rows) |-> frame.rows[i][ColIndex(frame, c)]]

\* set(iterable): iterate and keep one of each value.
RECURSIVE PySetFrom(_, _)
PySetFrom(seq, k) ==
    IF k > Len(seq) THEN {} ELSE {seq[k]} \cup PySetFrom(seq, k + 1)

PySet(seq) == PySetFrom(seq, 1)

\* frame[labels]: the frame with the columns labels, in that order.
HasColumns(frame, labels) ==
    \A k \in 1..Len(labels) : HasColumn(frame, labels[k])

Select(frame, labels) ==
    [cols |-> labels,
     rows |-> [i \in 1..Len(frame.rows) |->
                 [k \in 1..Len(labels) |->
                     frame.rows[i][ColIndex(frame, labels[k])]]]]

\* frame.itertuples(): the row's index comes first in each tuple.
IterTuplesWithIndex(frame) ==
    [i \in 1..Len(frame.rows) |-> <<i - 1>> \o frame.rows[i]]

\* frame.itertuples(index=False, name=None): one plain tuple per row.
IterTuples(frame) == frame.rows

RECURSIVE Gcd(_, _)
Gcd(a, b) == IF b = 0 THEN a ELSE Gcd(b, a % b)

\* Faulty variant of the division: a // b, the floor division.
FloorDiv(a, b) == <<a \div b, 1>>

\* a / b for ints a >= 0, b > 0 (b = 0 raises ZeroDivisionError: see callers).
TrueDiv(a, b) == <<a \div Gcd(a, b), b \div Gcd(a, b)>>

Raised(exc) == [status |-> exc, rows |-> <<>>]

Returned(rows) == [status |-> "ok", rows |-> rows]

Min(a, b) == IF a <= b THEN a ELSE b

----------------------------------------------------------------------------
(* identify_column_overlap                                                 *)

\* Faulty variants of the intersection: difference() and union() instead.
SetDifference(a, b) == a \ b

SetOfBoth(a, b) == a \cup b

\* original_values.intersection(synthetic_values)
SetIntersection(a, b) == a \cap b

\* Faulty variant of the union: symmetric_difference() instead.
SetSymmetricDifference(a, b) == (a \ b) \cup (b \ a)

\* original_values.union(synthetic_values)
SetUnion(a, b) == a \cup b

\* The dictionary appended for one column (the division is checked before).
ColumnOverlapEntry(real, syn, column) ==
    LET original_values == PySet(Column(real, column))
        synthetic_values == PySet(Column(syn, column))
        overlap == SetIntersection(original_values, synthetic_values)
        overlap_count == Cardinality(overlap)
        total_unique == Cardinality(SetUnion(original_values, synthetic_values))
    IN  [Column |-> column,
         Overlap_Count |-> overlap_count,
         Total_Unique_Values |-> total_unique,
         Overlap_Ratio |->
            IF total_unique = 0 THEN <<0, 0>>
            ELSE TrueDiv(overlap_count, total_unique)]

\* The loop over self.df.columns, from column k on, results_list so far.
RECURSIVE ColumnOverlapLoop(_, _, _, _)
ColumnOverlapLoop(real, syn, k, results_list) ==
    IF k > Len(real.cols) THEN Returned(results_list)
    ELSE IF ~HasColumn(syn, real.cols[k]) THEN Raised("KeyError")
    ELSE LET entry == ColumnOverlapEntry(real, syn, real.cols[k])
         IN  IF entry.Total_Unique_Values = 0
             THEN Raised("ZeroDivisionError")
             ELSE ColumnOverlapLoop(real, syn, k + 1,
                                    Append(results_list, entry))

identify_column_overlap(real, syn) == ColumnOverlapLoop(real, syn, 1, <<>>)

----------------------------------------------------------------------------
(* identify_row_overlap                                                    *)

\* Faulty variant: the columns are left in the synthetic frame's order.
KeepColumnOrder(syn, real) == syn

\* synthetic_data = synthetic_data[self.df.columns]
AlignColumns(syn, real) == Select(syn, real.cols)

\* Faulty variant: itertuples() with its default index=True.
RowSetWithIndex(frame) == PySet(IterTuplesWithIndex(frame))

\* set(tuple(row) for row in frame.itertuples(index=False, name=None))
RowSet(frame) == PySet(IterTuples(frame))

\* Faulty variant: the overlap counted row by row, as a merge would,
\* duplicates included.
identify_row_overlap_by_rows(real, syn) ==
    IF ~HasColumns(syn, real.cols) THEN Raised("KeyError")
    ELSE
    LET aligned == Select(syn, real.cols)
        synthetic_set == PySet(IterTuples(aligned))
        overlap_count ==
            Cardinality({i \in 1..Len(real.rows) : real.rows[i] \in synthetic_set})
        total_unique_rows ==
            Cardinality(PySet(IterTuples(real)) \cup synthetic_set)
    IN  IF total_unique_rows = 0 THEN Raised("ZeroDivisionError")
        ELSE Returned(<<[Overlap_Count |-> overlap_count,
                         Total_Unique_Rows |-> total_unique_rows,
                         Overlap_Ratio |->
                            TrueDiv(overlap_count, total_unique_rows)]>>)

identify_row_overlap(real, syn) ==
    IF ~HasColumns(syn, real.cols) THEN Raised("KeyError")
    ELSE
    LET aligned == AlignColumns(syn, real)
        original_set == RowSet(real)
        synthetic_set == RowSet(aligned)
        overlap == SetIntersection(original_set, synthetic_set)
        overlap_count == Cardinality(overlap)
        total_unique_rows == Cardinality(SetUnion(original_set, synthetic_set))
    IN  IF total_unique_rows = 0 THEN Raised("ZeroDivisionError")
        ELSE Returned(<<[Overlap_Count |-> overlap_count,
                         Total_Unique_Rows |-> total_unique_rows,
                         Overlap_Ratio |->
                            TrueDiv(overlap_count, total_unique_rows)]>>)

----------------------------------------------------------------------------
(* train_synthesizer                                                       *)

\* self.models_dir is set by __init__ (lines 69-74) and assigned nowhere
\* else, so the models_dir-is-None branch is never taken.  The library
\* calls Model.load, Model(**params), fit and save are taken to return.

NoFrame == [cols |-> <<>>, rows |-> <<>>]

\* A synthesizer object: its class, the params it was constructed with, the
\* data it was fitted on and, once fitted, the number of its fit.
\* A params dictionary: which method assembled it (kind) and, for the GAN
\* synthesizers, its "batch_size" and "pac" entries (0 when it has none).
NoParams == [kind |-> "none", batch_size |-> 0, pac |-> 0]

NoModel == [cls |-> "none", params |-> NoParams, data |-> NoFrame, id |-> 0]

NoTrainCall ==
    [Model |-> "none", model_name |-> "", force |-> FALSE, params |-> NoParams]

NoTrainRet == [status |-> "none", synthesizer |-> NoModel, calls |-> <<>>]

\* The synthesizer classes the callers pass as Model.
ModelClasses == {"GaussianCopulaSynthesizer", "CTGANSynthesizer",
                 "CopulaGANSynthesizer"}

\* The params dictionaries the callers assemble.
ParamChoices == {[kind |-> "defaults", batch_size |-> 0, pac |-> 0],
                 [kind |-> "tuned", batch_size |-> 0, pac |-> 0]}

\* The file names tried, and the model_name arguments ('' is the default).
FileNames == {"m1", "m2"}

ModelNames == FileNames \cup {""}

\* batch_size: int = 512
DefaultBatchSize == 512

\* self.models_dir after __init__: data_dir / 'models', never None.
None == "None"

models_dir == "data/models"

\* Faulty variant: an empty model_name falls back to a default file name.
ModelPathOrDefault(model_name) == IF model_name # "" THEN model_name ELSE "m1"

\* model_path = self.models_dir / model_name if model_name else None
\* (a path under models_dir is named by its file name).
ModelPath(model_name) == IF model_name # "" THEN model_name ELSE None

\* model_path.exists()
Exists(fs, path) == path \in FileNames /\ fs[path] # NoModel

\* Faulty variant: force is not looked at.
LoadsIgnoringForce(fs, path, force) == path # None /\ Exists(fs, path)

\* model_path and model_path.exists() and not force
Loads(fs, path, force) == path # None /\ Exists(fs, path) /\ ~force

\* Model.load(filepath=model_path): the unpickled object, whatever its class.
Load(fs, path) == fs[path]

\* Model(**params)
Construct(Model, params) ==
    [cls |-> Model, params |-> params, data |-> NoFrame, id |-> 0]

\* synthesizer.fit(self.df)
Fit(synthesizer, data, n) == [synthesizer EXCEPT !.data = data, !.id = n]

\* Faulty variant: the fitted synthesizer is never written to model_path.
SaveNothing(fs, path, synthesizer) == fs

\* synthesizer.save(filepath=str(model_path))
Save(fs, path, synthesizer) == [fs EXCEPT ![path] = synthesizer]

\* Whether the call fits a model.
WillFit(fs, model_name, force) ==
    /\ models_dir # None
    /\ ModelPath(model_name) # None
    /\ ~Loads(fs, ModelPath(model_name), force)

\* The method: the outcome and the files it leaves.
train_synthesizer(fs, n, real, Model, model_name, force, params) ==
    IF models_dir = None
    THEN [ret |-> [status |-> "ValueError", synthesizer |-> NoModel,
                   calls |-> <<>>],
          files |-> fs, n_fits |-> n]
    ELSE
    LET model_path == ModelPath(model_name)
    IN  IF Loads(fs, model_path, force)
        THEN [ret |-> [status |-> "ok",
                       synthesizer |-> Load(fs, model_path),
                       calls |-> <<"load">>],
              files |-> fs, n_fits |-> n]
        ELSE IF model_path # None
        THEN LET synthesizer == Fit(Construct(Model, params), real, n + 1)
             IN  [ret |-> [status |-> "ok",
                           synthesizer |-> synthesizer,
                           calls |-> <<"__init__", "fit", "save">>],
                  files |-> Save(fs, model_path, synthesizer),
                  n_fits |-> n + 1]
        ELSE [ret |-> [status |-> "ValueError", synthesizer |-> NoModel,
                       calls |-> <<>>],
              files |-> fs, n_fits |-> n]

----------------------------------------------------------------------------
(* train_ctgan_synthesizer, train_copula_gan_synthesizer                   *)

\* pac: int = 10
DefaultPac == 10

\* for diviser in (10, 8)
Divisers == <<10, 8>>

\* The loop from the k-th diviser on: the first diviser that divides
\* batch_size, the default when none does.
RECURSIVE PacLoop(_, _, _)
PacLoop(size, k, pac) ==
    IF k > Len(Divisers) THEN pac
    ELSE IF size % Divisers[k] = 0 THEN Divisers[k]
    ELSE PacLoop(size, k + 1, pac)

ChoosePac(size) == PacLoop(size, 1, DefaultPac)

\* The params each method assembles ("batch_size" and "pac" among them).
train_ctgan_params(size) ==
    [kind |-> "ctgan", batch_size |-> size, pac |-> ChoosePac(size)]

train_copula_gan_params(size) ==
    [kind |-> "copula_gan", batch_size |-> size, pac |-> ChoosePac(size)]

----------------------------------------------------------------------------
(* generate_synthetic_sample, run_diagnostic, run_evaluation               *)

\* The frames synthesizer.sample(num_rows=...) may return.
SmallSyn == [cols |-> <<"A">>, rows |-> <<<<2>>>>]

SampleFrames == {ExampleSyn, SmallSyn}

ReportTypes == {"diagnostic", "quality"}

\* A report object: which library function computed it, and from what data.
NoReport == [type |-> "none", real |-> NoFrame, synthetic |-> NoFrame]

NoReportCall == [method |-> "none", model_name |-> ""]

NoReportRet == [status |-> "none", report |-> NoReport, calls |-> <<>>]

\* Faulty variant: the diagnostic file name is used for every report type.
ReportFileDiagnostic(prefix, model_name) == <<"diagnostic", model_name>>

\* self.report_dir / f"{prefix}_{model_name}": the prefixes differ in their
\* first letter, so the name decides the pair (prefix, model_name).
ReportFile(prefix, model_name) == <<prefix, model_name>>

\* The model_name arguments the report methods are called with.
ReportNames == {"m1"}

ReportFiles == {ReportFile(t, n) : t \in ReportTypes, n \in ReportNames}

\* Faulty variant: the cache is never looked at.
ReportNeverExists(fs, report_file) == FALSE

\* report_file.exists()
ReportExists(fs, report_file) == fs[report_file] # NoReport

\* _get_evaluation_report: run_diagnostic(**params) / evaluate_quality(**params)
get_evaluation_report(real, syn, report_type) ==
    IF report_type \notin {"diagnostic", "quality"}
    THEN [status |-> "ValueError", report |-> NoReport]
    ELSE [status |-> "ok",
          report |-> [type |-> report_type, real |-> real, synthetic |-> syn]]

\* The body shared by run_diagnostic (prefix and report_type 'diagnostic')
\* and run_evaluation ('quality'): the outcome, the files it leaves and
\* whether the library computed a report.
run_report(fs, real, syn, model_name, report_type) ==
    LET report_file == ReportFile(report_type, model_name)
    IN  IF ReportExists(fs, report_file)
        THEN [ret |-> [status |-> "ok", report |-> fs[report_file],
                       calls |-> <<"load">>],
              reports |-> fs, computes |-> FALSE, file |-> report_file]
        ELSE LET got == get_evaluation_report(real, syn, report_type)
             IN  IF got.status # "ok"
                 THEN [ret |-> [status |-> got.status, report |-> NoReport,
                                calls |-> <<>>],
                       reports |-> fs, computes |-> FALSE,
                       file |-> report_file]
                 ELSE [ret |-> [status |-> "ok", report |-> got.report,
                                calls |-> <<"compute", "save">>],
                       reports |-> [fs EXCEPT ![report_file] = got.report],
                       computes |-> TRUE, file |-> report_file]

run_diagnostic(fs, real, syn, model_name) ==
    run_report(fs, real, syn, model_name, "diagnostic")

run_evaluation(fs, real, syn, model_name) ==
    run_report(fs, real, syn, model_name, "quality")

----------------------------------------------------------------------------
(* The object after __init__ and its overlap methods.                      *)

\* report_dir as __init__ finds it when no earlier run left a report.
NoReportsYet ==
    /\ sample_model = 0
    /\ reports = [f \in ReportFiles |-> NoReport]
    /\ computed = [f \in ReportFiles |-> <<>>]
    /\ report_call = NoReportCall
    /\ report_ret = NoReportRet

Init ==
    /\ df \in RealFrames
    /\ op = "__init__"
    /\ synthetic_data \in SynFrames
    /\ ret = Raised("none")
    /\ files = [name \in FileNames |-> NoModel]
    /\ n_fits = 0
    /\ train_call = NoTrainCall
    /\ train_ret = NoTrainRet
    /\ called = {}
    /\ batch_size = DefaultBatchSize
    /\ NoReportsYet

IdentifyColumnOverlap ==
    /\ op' = "identify_column_overlap"
    /\ ret' = identify_column_overlap(df, synthetic_data)
    /\ UNCHANGED <<df, synthetic_data, trainVars, reportVars>>

IdentifyRowOverlap ==
    /\ op' = "identify_row_overlap"
    /\ ret' = identify_row_overlap(df, synthetic_data)
    /\ UNCHANGED <<df, synthetic_data, trainVars, reportVars>>

Next ==
    \/ IdentifyColumnOverlap
    \/ IdentifyRowOverlap

Spec == Init /\ [][Next]_vars

----------------------------------------------------------------------------
(* The object with its models directory and train_synthesizer.            *)

\* The frames a model is trained on, and the one earlier runs trained on.
EmptyReal == [cols |-> <<"A">>, rows |-> <<>>]

TrainFrames == {ExampleReal, EmptyReal}

\* A model file left in models_dir by an earlier run.
EarlierModels ==
    {[cls |-> c, params |-> [kind |-> "defaults", batch_size |-> 0, pac |-> 0],
      data |-> ExampleSyn, id |-> 0] : c \in ModelClasses}

InitTrain ==
    /\ df \in TrainFrames
    /\ op = "__init__"
    /\ synthetic_data = ExampleSyn
    /\ ret = Raised("none")
    /\ files \in [FileNames -> EarlierModels \cup {NoModel}]
    /\ n_fits = 0
    /\ train_call = NoTrainCall
    /\ train_ret = NoTrainRet
    /\ called = {}
    /\ batch_size = DefaultBatchSize
    /\ NoReportsYet

\* A train_synthesizer call with its arguments among the given ones.
TrainSynthesizerFor(Models, names, paramsets) ==
    \E Model \in Models, model_name \in names,
       force \in BOOLEAN, params \in paramsets :
        LET out == train_synthesizer(files, n_fits, df, Model, model_name,
                                     force, params)
        IN  /\ WillFit(files, model_name, force) => n_fits < MaxFits
            /\ op' = "train_synthesizer"
            /\ train_call' = [Model |-> Model, model_name |-> model_name,
                              force |-> force, params |-> params]
            /\ train_ret' = out.ret
            /\ files' = out.files
            /\ n_fits' = out.n_fits
            /\ called' = IF out.ret.status = "ok"
                         THEN called \cup {model_name} ELSE called
            /\ UNCHANGED <<df, overlapVars, batch_size, reportVars>>

TrainSynthesizer ==
    TrainSynthesizerFor(ModelClasses, ModelNames, ParamChoices)

NextTrain == TrainSynthesizer

SpecTrain == InitTrain /\ [][NextTrain]_vars

----------------------------------------------------------------------------
(* The GAN training methods, for every batch size.                         *)

\* The batch sizes tried are 1..MaxBatchSize and the default.
BatchSizes == 1..MaxBatchSize \cup {DefaultBatchSize}

InitPac ==
    /\ df = ExampleReal
    /\ op = "__init__"
    /\ synthetic_data = ExampleSyn
    /\ ret = Raised("none")
    /\ files = [name \in FileNames |-> NoModel]
    /\ n_fits = 0
    /\ train_call = NoTrainCall
    /\ train_ret = NoTrainRet
    /\ called = {}
    /\ batch_size \in BatchSizes
    /\ NoReportsYet

TrainCtganSynthesizerFor(names) ==
    TrainSynthesizerFor({"CTGANSynthesizer"}, names,
                        {train_ctgan_params(batch_size)})

TrainCtganSynthesizer == TrainCtganSynthesizerFor(ModelNames)

TrainCopulaGanSynthesizer ==
    TrainSynthesizerFor({"CopulaGANSynthesizer"}, ModelNames,
                        {train_copula_gan_params(batch_size)})

NextPac ==
    \/ TrainCtganSynthesizer
    \/ TrainCopulaGanSynthesizer

SpecPac == InitPac /\ [][NextPac]_vars

----------------------------------------------------------------------------
(* Training, sampling and the two cached reports.                          *)

\* Reports an earlier run left in report_dir.
EarlierReport(f) ==
    [type |-> f[1], real |-> ExampleReal, synthetic |-> ExampleSyn]

InitReports ==
    /\ df = ExampleReal
    /\ op = "__init__"
    /\ synthetic_data \in SampleFrames
    /\ ret = Raised("none")
    /\ files = [name \in FileNames |-> NoModel]
    /\ n_fits = 0
    /\ train_call = NoTrainCall
    /\ train_ret = NoTrainRet
    /\ called = {}
    /\ batch_size = DefaultBatchSize
    /\ sample_model = 0
    /\ reports \in {r \in [ReportFiles -> {NoReport} \cup
                                {EarlierReport(f) : f \in ReportFiles}] :
                      \A f \in ReportFiles : r[f] \in {NoReport, EarlierReport(f)}}
    /\ computed = [f \in ReportFiles |-> <<>>]
    /\ report_call = NoReportCall
    /\ report_ret = NoReportRet

\* generate_synthetic_sample(synthesizer) for the synthesizer the last
\* train_synthesizer call returned: whatever frame the library samples.
GenerateSyntheticSample ==
    /\ train_ret.status = "ok"
    /\ \E sample \in SampleFrames :
        /\ op' = "generate_synthetic_sample"
        /\ synthetic_data' = sample
        /\ sample_model' = train_ret.synthesizer.id
        /\ UNCHANGED <<df, ret, trainVars, reports, computed, report_call,
                       report_ret>>

\* A report call with the current synthetic_data.
RunReport(method, out, model_name) ==
    /\ op' = method
    /\ report_call' = [method |-> method, model_name |-> model_name]
    /\ report_ret' = out.ret
    /\ reports' = out.reports
    /\ computed' =
          IF out.computes
          THEN [computed EXCEPT ![out.file] =
                   Append(@, [synthetic |-> synthetic_data,
                              sample_model |-> sample_model])]
          ELSE computed
    /\ UNCHANGED <<df, overlapVars, trainVars, sample_model>>

RunDiagnostic ==
    \E model_name \in ReportNames :
        RunReport("run_diagnostic",
                  run_diagnostic(reports, df, synthetic_data, model_name),
                  model_name)

RunEvaluation ==
    \E model_name \in ReportNames :
        RunReport("run_evaluation",
                  run_evaluation(reports, df, synthetic_data, model_name),
                  model_name)

\* The model the reports are named after is trained and retrained.
TrainReportedModel == TrainCtganSynthesizerFor(ReportNames)

NextReports ==
    \/ TrainReportedModel
    \/ GenerateSyntheticSample
    \/ RunDiagnostic
    \/ RunEvaluation

SpecReports == InitReports /\ [][NextReports]_vars

----------------------------------------------------------------------------
(* What the properties below speak of, stated without the methods' code.   *)

\* The values occurring in column c of a frame.
ValueSet(frame, c) ==
    {frame.rows[i][ColIndex(frame, c)] : i \in 1..Len(frame.rows)}

\* The rows of a frame as assignments of a value to each of the labels.
RowMaps(frame, labels) ==
    {[c \in labels |-> frame.rows[i][ColIndex(frame, c)]] :
        i \in 1..Len(frame.rows)}

\* x = n / d as a float, for d > 0.
IsQuotient(x, n, d) == x[2] > 0 /\ x[1] * d = n * x[2]

One == <<1, 1>>

Zero == <<0, 1>>

CalledColumnOverlap == op = "identify_column_overlap"

CalledRowOverlap == op = "identify_row_overlap"

\* The synthetic frame holds every real column.
SynHasRealColumns == HasColumns(synthetic_data, df.cols)

BothWithoutRows == Len(df.rows) = 0 /\ Len(synthetic_data.rows) = 0

\* The last identify_column_overlap call reported ratio x for column c.
ColumnRatioIs(c, x) ==
    /\ ret.status = "ok"
    /\ \E k \in 1..Len(ret.rows) :
          ret.rows[k].Column = c /\ ret.rows[k].Overlap_Ratio = x

\* Every ordering of a frame's columns.
ColumnOrders(frame) ==
    {p \in [1..Len(frame.cols) -> ColSet(frame)] :
        \A i, j \in 1..Len(frame.cols) : i # j => p[i] # p[j]}

\* The frame with its row i repeated n more times.
Repeat(frame, i, n) ==
    [frame EXCEPT !.rows = @ \o [k \in 1..n |-> frame.rows[i]]]

HasDuplicateRows(frame) ==
    \E i, j \in 1..Len(frame.rows) : i # j /\ frame.rows[i] = frame.rows[j]

----------------------------------------------------------------------------
(* identify_column_overlap: C1 .. C4                                       *)

\* C1: a call of identify_column_overlap returns exactly when the synthetic
\* frame has every real column and the two frames are not both without rows;
\* the result then has exactly one row per real column, in column order, and
\* the row of column c has Overlap Count = |set(df[c]) /\ set(syn[c])|,
\* Total Unique Values = |set(df[c]) \/ set(syn[c])| and Overlap Ratio =
\* Overlap Count / Total Unique Values; real A=[1,2,3] with synthetic
\* A=[2,3,4] gives 2, 4 and 0.5.
C1_ColumnOverlapRows ==
    CalledColumnOverlap =>
        /\ ret.status = "ok" <=> (SynHasRealColumns /\ ~BothWithoutRows)
        /\ ret.status = "ok" =>
            /\ Len(ret.rows) = Len(df.cols)
            /\ \A k \in 1..Len(df.cols) :
                LET c == df.cols[k]
                    row == ret.rows[k]
                    R == ValueSet(df, c)
                    S == ValueSet(synthetic_data, c)
                IN  /\ row.Column = c
                    /\ row.Overlap_Count = Cardinality(R \cap S)
                    /\ row.Total_Unique_Values = Cardinality(R \cup S)
                    /\ IsQuotient(row.Overlap_Ratio, row.Overlap_Count,
                                  row.Total_Unique_Values)
        /\ (df = ExampleReal /\ synthetic_data = ExampleSyn) =>
            ret = Returned(<<[Column |-> "A", Overlap_Count |-> 2,
                              Total_Unique_Values |-> 4,
                              Overlap_Ratio |-> <<1, 2>>]>>)

\* C1 witness: the documented example has been computed.
C1_Witness ==
    /\ CalledColumnOverlap
    /\ df = ExampleReal
    /\ synthetic_data = ExampleSyn
    /\ ret.status = "ok"
    /\ ret.rows[1].Overlap_Count = 2

\* C2: in every row identify_column_overlap reports,
\* 0 <= Overlap Count <= Total Unique Values and the ratio lies in [0, 1].
C2_ColumnRatioBounded ==
    (CalledColumnOverlap /\ ret.status = "ok") =>
        \A k \in 1..Len(ret.rows) :
            /\ 0 <= ret.rows[k].Overlap_Count
            /\ ret.rows[k].Overlap_Count <= ret.rows[k].Total_Unique_Values
            /\ ret.rows[k].Overlap_Ratio[2] > 0
            /\ 0 <= ret.rows[k].Overlap_Ratio[1]
            /\ ret.rows[k].Overlap_Ratio[1] <= ret.rows[k].Overlap_Ratio[2]

\* C2 witness: a reported ratio strictly between 0 and 1.
C2_Witness ==
    /\ CalledColumnOverlap
    /\ ret.status = "ok"
    /\ \E k \in 1..Len(ret.rows) :
          /\ 0 < ret.rows[k].Overlap_Count
          /\ ret.rows[k].Overlap_Count < ret.rows[k].Total_Unique_Values

\* C3 (as claimed): for every df and syn sharing the real columns, empty
\* value sets included, the ratio of column c is 1.0 if and only if the
\* value sets of df[c] and syn[c] are identical.
C3_RatioOneIffIdentical ==
    (CalledColumnOverlap /\ SynHasRealColumns) =>
        \A k \in 1..Len(df.cols) :
            ColumnRatioIs(df.cols[k], One)
                <=> ValueSet(df, df.cols[k]) = ValueSet(synthetic_data, df.cols[k])

\* C4 (as claimed): the ratio of column c is 0.0 if and only if the two value
\* sets are disjoint and both non-empty.
C4_RatioZeroIffDisjointBothNonEmpty ==
    (CalledColumnOverlap /\ SynHasRealColumns) =>
        \A k \in 1..Len(df.cols) :
            LET R == ValueSet(df, df.cols[k])
                S == ValueSet(synthetic_data, df.cols[k])
            IN  ColumnRatioIs(df.cols[k], Zero)
                    <=> (R \cap S = {} /\ R # {} /\ S # {})

\* C4 (amended): when syn has every real column, the ratio of column c is 0.0
\* if and only if the two value sets are disjoint and at least one of them is
\* non-empty.
C4_RatioZeroIffDisjointNotBothEmpty ==
    (CalledColumnOverlap /\ SynHasRealColumns) =>
        \A k \in 1..Len(df.cols) :
            LET R == ValueSet(df, df.cols[k])
                S == ValueSet(synthetic_data, df.cols[k])
            IN  ColumnRatioIs(df.cols[k], Zero)
                    <=> (R \cap S = {} /\ (R # {} \/ S # {}))

\* C4 witness: ratio 0.0 reported with an empty synthetic column.
C4_Witness ==
    /\ CalledColumnOverlap
    /\ SynHasRealColumns
    /\ Len(df.rows) > 0
    /\ Len(synthetic_data.rows) = 0
    /\ ColumnRatioIs(df.cols[1], Zero)

----------------------------------------------------------------------------
(* identify_row_overlap: C5 .. C8                                          *)

\* C5: identify_row_overlap compares the rows by column label: with R the
\* real rows and S the synthetic rows restricted to the real columns, a call
\* that returns reports Overlap Count = |R /\ S|, Total Unique Rows =
\* |R \/ S| and Overlap Ratio = their quotient (it raises when a real column
\* is missing or both frames have no rows); every ordering of the synthetic
\* columns gives the same outcome; identical row sets give 1.0 and disjoint
\* row sets give 0.0 with count 0.
C5_RowOverlapAligned ==
    CalledRowOverlap =>
        /\ ret.status = "ok" <=> (SynHasRealColumns /\ ~BothWithoutRows)
        /\ \A p \in ColumnOrders(synthetic_data) :
              identify_row_overlap(df, Select(synthetic_data, p)) = ret
        /\ ret.status = "ok" =>
            LET R == RowMaps(df, ColSet(df))
                S == RowMaps(synthetic_data, ColSet(df))
                row == ret.rows[1]
            IN  /\ Len(ret.rows) = 1
                /\ row.Overlap_Count = Cardinality(R \cap S)
                /\ row.Total_Unique_Rows = Cardinality(R \cup S)
                /\ IsQuotient(row.Overlap_Ratio, row.Overlap_Count,
                              row.Total_Unique_Rows)
                /\ R = S => row.Overlap_Ratio = One
                /\ R \cap S = {} =>
                      (row.Overlap_Ratio = Zero /\ row.Overlap_Count = 0)

\* C5 witness: a synthetic frame stored in the other column order shares a
\* row with the real frame.
C5_Witness ==
    /\ CalledRowOverlap
    /\ ret.status = "ok"
    /\ Len(df.cols) = 2
    /\ synthetic_data.cols # df.cols
    /\ \E i \in 1..Len(df.rows) : df.rows[i][1] # df.rows[i][2]
    /\ ret.rows[1].Overlap_Count > 0

\* C6: repeating any row of the real or of the synthetic frame, any number of
\* times, leaves the outcome of identify_row_overlap unchanged.
C6_DuplicatesCollapse ==
    CalledRowOverlap =>
        \A n \in 1..MaxRepeat :
            /\ \A i \in 1..Len(df.rows) :
                  identify_row_overlap(Repeat(df, i, n), synthetic_data) = ret
            /\ \A j \in 1..Len(synthetic_data.rows) :
                  identify_row_overlap(df, Repeat(synthetic_data, j, n)) = ret

\* C6 witness: a result for two frames that both have rows, the real one
\* already with a repeated row.
C6_Witness ==
    /\ CalledRowOverlap
    /\ ret.status = "ok"
    /\ HasDuplicateRows(df)
    /\ Len(synthetic_data.rows) > 0
    /\ ret.rows[1].Overlap_Count > 0

\* C7: Overlap Count <= min(number of distinct real rows, number of distinct
\* synthetic rows).
C7_CountAtMostDistinctRows ==
    (CalledRowOverlap /\ ret.status = "ok") =>
        /\ ret.rows[1].Overlap_Count
              <= Min(Cardinality(RowMaps(df, ColSet(df))),
                     Cardinality(RowMaps(synthetic_data, ColSet(synthetic_data))))
        /\ ret.rows[1].Overlap_Count
              <= Cardinality(RowMaps(synthetic_data, ColSet(df)))

\* C7 witness: the count reaches the bound while the synthetic frame holds
\* more rows than distinct rows.
C7_Witness ==
    /\ CalledRowOverlap
    /\ ret.status = "ok"
    /\ HasDuplicateRows(synthetic_data)
    /\ ret.rows[1].Overlap_Count > 0
    /\ ret.rows[1].Overlap_Count
          = Cardinality(RowMaps(synthetic_data, ColSet(synthetic_data)))

\* C8 (as claimed): there is a real and a synthetic dataframe for which the
\* reported Overlap Count exceeds the smaller of the two row counts,
\* duplicates included.
C8_CountExceedsRowCounts ==
    \E real \in RealFrames \cup {df}, syn \in SynFrames \cup {synthetic_data} :
        LET out == identify_row_overlap(real, syn)
        IN  /\ out.status = "ok"
            /\ out.rows[1].Overlap_Count > Min(Len(real.rows), Len(syn.rows))

\* C8 (amended): every Overlap Count identify_row_overlap reports is at most
\* min(|rows_real|, |rows_synthetic|), rows counted with duplicates.
C8_CountAtMostRowCounts ==
    (CalledRowOverlap /\ ret.status = "ok") =>
        ret.rows[1].Overlap_Count
            <= Min(Len(df.rows), Len(synthetic_data.rows))

\* C8 witness: both frames hold repeated rows and the count is positive.
C8_Witness ==
    /\ CalledRowOverlap
    /\ ret.status = "ok"
    /\ HasDuplicateRows(df)
    /\ HasDuplicateRows(synthetic_data)
    /\ ret.rows[1].Overlap_Count > 0
    /\ ret.rows[1].Overlap_Count < Min(Len(df.rows), Len(synthetic_data.rows))

----------------------------------------------------------------------------
(* train_synthesizer: C9, C10                                              *)

CalledTrain == op = "train_synthesizer"

\* C9: a train_synthesizer call with a non-empty model_name loads and returns
\* the stored model, fitting and saving nothing, exactly when the file
\* models_dir/model_name exists and force is not True; in every other case it
\* constructs a new Model(**params), fits it on self.df, saves it to
\* models_dir/model_name (and to no other file) and returns it.
C9_LoadIffExistsAndNotForce ==
    [][(CalledTrain' /\ train_call'.model_name # "") =>
        LET name == train_call'.model_name
            stored == files[name]
            out == train_ret'
        IN  IF stored # NoModel /\ ~train_call'.force
            THEN /\ out.status = "ok"
                 /\ out.calls = <<"load">>
                 /\ out.synthesizer = stored
                 /\ files' = files
                 /\ n_fits' = n_fits
            ELSE /\ out.status = "ok"
                 /\ out.calls = <<"__init__", "fit", "save">>
                 /\ out.synthesizer.cls = train_call'.Model
                 /\ out.synthesizer.params = train_call'.params
                 /\ out.synthesizer.data = df
                 /\ \A f \in FileNames : files[f] # out.synthesizer
                 /\ n_fits' = n_fits + 1
                 /\ files'[name] = out.synthesizer
                 /\ \A f \in FileNames \ {name} : files'[f] = files[f]
    ]_vars

\* C9 witness: a call has loaded a model that an earlier call of this run
\* fitted, for another Model class than the one now passed.
C9_Witness ==
    /\ CalledTrain
    /\ train_ret.calls = <<"load">>
    /\ train_ret.synthesizer.id > 0
    /\ train_ret.synthesizer.cls # train_call.Model
    /\ files[train_call.model_name] = train_ret.synthesizer

\* C10: a train_synthesizer call with an empty model_name raises ValueError,
\* whatever force and the files of models_dir are, and loads, constructs,
\* fits and saves nothing: no file is created or changed.
C10_EmptyNameRaises ==
    [][(CalledTrain' /\ train_call'.model_name = "") =>
        /\ train_ret'.status = "ValueError"
        /\ train_ret'.calls = <<>>
        /\ train_ret'.synthesizer = NoModel
        /\ files' = files
        /\ n_fits' = n_fits
    ]_vars

\* C10 witness: the error has been raised with force=True while models_dir
\* holds a model file.
C10_Witness ==
    /\ CalledTrain
    /\ train_call.model_name = ""
    /\ train_call.force
    /\ train_ret.status = "ValueError"
    /\ \E f \in FileNames : files[f] # NoModel
    /\ \E f \in FileNames : files[f] = NoModel

----------------------------------------------------------------------------
(* The cached reports and repeated training: C11 .. C13                    *)

CalledReport == op \in {"run_diagnostic", "run_evaluation"}

\* The file the last report call is documented to use: diagnostic_<name> for
\* run_diagnostic, quality_<name> for run_evaluation.
CalledReportType == IF op = "run_diagnostic" THEN "diagnostic" ELSE "quality"

CalledReportFile == <<CalledReportType, report_call.model_name>>

Fitted == <<"__init__", "fit", "save">>

\* C11: run_diagnostic (file diagnostic_<model_name>) and run_evaluation
\* (file quality_<model_name>) look at their own file only; when it exists
\* they return the stored report and compute and save nothing, whatever
\* synthetic_data is; when it does not they compute the report of their type
\* from self.df and synthetic_data and save it to that file only; so no
\* report file is computed more than once.
C11_ReportsCachedByFile ==
    /\ [](\A f \in ReportFiles : Len(computed[f]) <= 1)
    /\ [][CalledReport' =>
            LET f == CalledReportFile'
                fresh == [type |-> CalledReportType', real |-> df,
                          synthetic |-> synthetic_data]
            IN  /\ report_ret'.status = "ok"
                /\ \A g \in ReportFiles \ {f} :
                      reports'[g] = reports[g] /\ computed'[g] = computed[g]
                /\ IF reports[f] # NoReport
                   THEN /\ report_ret'.calls = <<"load">>
                        /\ report_ret'.report = reports[f]
                        /\ reports'[f] = reports[f]
                        /\ computed'[f] = computed[f]
                   ELSE /\ report_ret'.calls = <<"compute", "save">>
                        /\ report_ret'.report = fresh
                        /\ reports'[f] = fresh
                        /\ Len(computed'[f]) = Len(computed[f]) + 1
       ]_vars

\* C11 witness: run_evaluation has returned the quality report computed
\* earlier in the run from other synthetic data, while the diagnostic file of
\* the same name holds another report.
C11_Witness ==
    /\ op = "run_evaluation"
    /\ report_ret.calls = <<"load">>
    /\ report_ret.report.synthetic # synthetic_data
    /\ Len(computed[CalledReportFile]) = 1
    /\ reports[<<"diagnostic", report_call.model_name>>] # NoReport
    /\ reports[<<"diagnostic", report_call.model_name>>] # report_ret.report

\* C12: a train_synthesizer call that returns leaves the file
\* models_dir/model_name in place, and the files of the names it returned
\* for stay; so a call fits only when it is the first one returning for its
\* name or is made with force=True, and every call with force=False for a
\* name already returned for loads.
C12_FitsOnlyFirstOrForced ==
    /\ [](\A n \in called : n \in FileNames /\ files[n] # NoModel)
    /\ [][(CalledTrain' /\ train_call'.model_name # "") =>
            LET name == train_call'.model_name
            IN  /\ train_ret'.status = "ok" => files'[name] # NoModel
                /\ train_ret'.calls = Fitted =>
                      (name \notin called \/ train_call'.force)
                /\ (name \in called /\ ~train_call'.force) =>
                      (train_ret'.calls = <<"load">> /\ n_fits' = n_fits)
       ]_vars

\* C12 witness: after a forced second fit for the same name, a call with
\* force=False has loaded the model of that second fit.
C12_Witness ==
    /\ CalledTrain
    /\ ~train_call.force
    /\ train_call.model_name \in called
    /\ train_ret.calls = <<"load">>
    /\ n_fits >= 2
    /\ train_ret.synthesizer.id = n_fits

\* C13: train_synthesizer, also with force=True, leaves every report file as
\* it is; a report call whose file holds a report returns that report: the
\* one computed first in this run (or left by an earlier run), also when the
\* model has been retrained since and synthetic_data is a sample of the new
\* model.
C13_RetrainingKeepsReports ==
    /\ [][CalledTrain' => (reports' = reports /\ computed' = computed)]_vars
    /\ [](CalledReport =>
            LET f == CalledReportFile
            IN  /\ report_ret.report = reports[f]
                /\ IF computed[f] = <<>>
                   THEN report_ret.report = EarlierReport(f)
                   ELSE /\ report_ret.report.synthetic = computed[f][1].synthetic
                        /\ sample_model >= computed[f][1].sample_model)

\* C13 witness: the report returned was computed from a sample of an older
\* model; the model has been retrained with force=True since, and the
\* synthetic_data now passed is a different sample, of the new model.
C13_Witness ==
    /\ CalledReport
    /\ report_ret.calls = <<"load">>
    /\ computed[CalledReportFile] # <<>>
    /\ computed[CalledReportFile][1].sample_model >= 1
    /\ sample_model > computed[CalledReportFile][1].sample_model
    /\ sample_model = n_fits
    /\ train_call.force
    /\ files[report_call.model_name].id = n_fits
    /\ synthetic_data # report_ret.report.synthetic

----------------------------------------------------------------------------
(* The GAN training methods: C14                                           *)

\* C14 (as claimed): the params train_ctgan_synthesizer and
\* train_copula_gan_synthesizer construct the synthesizer with hold a pac that
\* divides batch_size: 10 when batch_size is a multiple of 10, otherwise 8
\* when it is a multiple of 8, otherwise the default 10.
C14_PacDividesBatchSize ==
    (CalledTrain /\ train_ret.calls = Fitted) =>
        LET given == train_ret.synthesizer.params
        IN  /\ given.batch_size = batch_size
            /\ given.pac = (IF batch_size % 10 = 0 THEN 10
                            ELSE IF batch_size % 8 = 0 THEN 8 ELSE 10)
            /\ batch_size % given.pac = 0

====
